---- MODULE Spec2Model ----
(***************************************************************************)
(* Model of drivers/tee/mipstee/mipstee_call.c: the four entry points of   *)
(* the call protocol engine (mipstee_open_session, mipstee_close_session,  *)
(* mipstee_invoke_func, mipstee_cancel_req) run by concurrent threads on   *)
(* one tee_context.  Shared state is the context's sess_list and           *)
(* cancel_idr under ctxdata->mutex; every other datum is local to the      *)
(* calling thread.  Each mutex_lock and each critical section up to its    *)
(* mutex_unlock is a step of its own, as are buffer allocation, the        *)
(* marshaling steps, handing a message to the transport and the            *)
(* transport's return.                                                     *)
(*                                                                         *)
(* The secure-world peer is outside the driver.  It is modelled as the set *)
(* of sessions it holds open: it answers OPEN_SESSION with success and an  *)
(* id it does not currently hold open, or with a failure and an arbitrary  *)
(* session field, and forgets a session when a CLOSE_SESSION reaches it.   *)
(***************************************************************************)
EXTENDS Integers, Sequences, FiniteSets, TLC

\* Bounds of the model.
NumThreads == 2
MaxSess == 1
MaxCancel == 2
\* Token ids are 1 .. IdrEnd-1 (the kernel's idr hands out 1 .. INT_MAX).
IdrEnd == 3
\* Entry-point calls made on the context in one run.
MaxCalls == 3

\* errno values returned by the driver; EIO stands for any negative status
\* of tipc_call / tipc_write.
EINVAL == 22
ENOMEM == 12
EACCES == 13
ENOSPC == 28
EIO == 5

Threads == 1..NumThreads
NoThread == 0
SessIds == 1..MaxSess
SessArgs == 0..MaxSess
CancelIds == 0..MaxCancel
TokenIds == 1..(IdrEnd - 1)

\* TEEC_LOGIN_* values accepted by mipstee_authenticate_client; LoginArgs
\* are the clnt_login inputs tried.
RecognizedLogins == {0, 1, 2, 4, 5, 6}
LoginArgs == 0..7

VARIABLES
    th,          \* per thread: position and locals of the call it runs
    mutex,       \* ctxdata->mutex: the thread holding it, or NoThread
    sess_list,   \* ctxdata->sess_list: session ids, head first
    cancel_idr,  \* ctxdata->cancel_idr: token id -> cancel_id (0: free)
    idr_next,    \* cancel_idr.idr_next, the cyclic allocation cursor
    peer_sess,   \* sessions the secure world holds open
    calls,       \* number of entry-point calls made so far
    sess_ev,     \* history per session id: "none", then "live" from an
                 \* insertion on, "removed" by a close still running, "closed"
                 \* once that close returned 0
    closed_ret   \* history: a close of the id returned 0, no open returned it since

vars == <<th, mutex, sess_list, cancel_idr, idr_next, peer_sess, calls, sess_ev, closed_ret>>

----------------------------------------------------------------------------
\* Registry helpers

\* find_session: position of the first node with the id, 0 for NULL.
find_session(list, session_id) ==
    IF \E i \in 1..Len(list) : list[i] = session_id
    THEN CHOOSE i \in 1..Len(list) :
            /\ list[i] = session_id
            /\ \A j \in 1..(i - 1) : list[j] # session_id
    ELSE 0

list_add_drop(node, list) == list

list_add(node, list) == <<node>> \o list

list_del_keep(list, i) == list

list_del(list, i) == SubSeq(list, 1, i - 1) \o SubSeq(list, i + 1, Len(list))

match_cancel_id(id, p, data) == IF p = data THEN id ELSE 0

\* idr_for_each with match_cancel_id: the first allocated id, in increasing
\* order, for which the callback returns non-zero; 0 when there is none.
idr_for_each_first(idr, data) ==
    LET hits == {id \in TokenIds : idr[id] # 0}
    IN IF hits = {} THEN 0
       ELSE CHOOSE id \in hits : \A o \in hits : id <= o

idr_for_each(idr, data) ==
    LET hits == {id \in TokenIds : idr[id] # 0 /\ match_cancel_id(id, idr[id], data) # 0}
    IN IF hits = {} THEN 0
       ELSE CHOOSE id \in hits : \A o \in hits : id <= o

\* idr_alloc_cyclic(idr, ptr, 1, 0): the first free id at or after the
\* cursor, else the first free id from 1, else -ENOSPC.
idr_alloc_cyclic(idr, next) ==
    LET start == IF next < 1 THEN 1 ELSE next
        above == {id \in TokenIds : id >= start /\ idr[id] = 0}
        any   == {id \in TokenIds : idr[id] = 0}
    IN IF above # {} THEN CHOOSE id \in above : \A o \in above : id <= o
       ELSE IF any # {} THEN CHOOSE id \in any : \A o \in any : id <= o
       ELSE -ENOSPC

----------------------------------------------------------------------------
\* Collaborators outside mipstee_call.c

\* Secure world's answers to OPEN_SESSION: success with an id it does not
\* hold open, or failure with whatever it left in the session field.
PeerOpenReplies(ps) ==
    {[ret |-> "TEEC_SUCCESS", origin |-> "TRUSTED_APP", session |-> x, peer |-> ps \cup {x}]
        : x \in SessIds \ ps}
    \cup
    {[ret |-> "TEEC_ERROR_GENERIC", origin |-> "TEE", session |-> s, peer |-> ps]
        : s \in SessArgs}

\* Secure world's answers to INVOKE_COMMAND.
PeerInvokeReplies ==
    {[ret |-> "TEEC_SUCCESS", origin |-> "TRUSTED_APP"],
     [ret |-> "TEEC_ERROR_GENERIC", origin |-> "TRUSTED_APP"]}

\* Status values of mipstee_to_msg_param / mipstee_from_msg_param.
MarshalStatus == {0, -EINVAL}

----------------------------------------------------------------------------
\* Thread state

IdleThread ==
    [pc |-> "idle", op |-> "none",
     a_session |-> 0, a_cancel |-> 0,          \* arg->session, arg->cancel_id
     a_ret |-> "UNSET", a_origin |-> "UNSET",  \* arg->ret, arg->ret_origin
     idr_id |-> 0, rc |-> 0,
     trc |-> 0,                                \* status of the entry point's own
                                               \* mipstee_do_call_with_arg
     shm |-> "none",                           \* the entry point's buffer
     cshm |-> "none", cs_session |-> 0,        \* mipstee_close_session's own
     msg_session |-> 0, msg_cancel |-> 0,
     msg_ret |-> "TEEC_SUCCESS", msg_origin |-> "NONE",
     nAlloc |-> 0, nFree |-> 0, nCall |-> 0, nWrite |-> 0,
     \* history of the call: what its registry lookups met
     f_sess |-> "none",   \* session lookup: "present" or "absent"
     f_tok |-> "none",    \* token scan for a_cancel: "live" or "free"
     f_ins |-> 0,         \* the session id this call added to sess_list
     f_login |-> "none"]  \* clnt_login met: "recognized" or "other"

Init ==
    /\ th = [t \in Threads |-> IdleThread]
    /\ mutex = NoThread
    /\ sess_list = <<>>
    /\ cancel_idr = [id \in TokenIds |-> 0]
    /\ idr_next = 0
    /\ peer_sess = {}
    /\ calls = 0
    /\ sess_ev = [s \in SessIds |-> "none"]
    /\ closed_ret = [s \in SessIds |-> FALSE]

Upd(t, r) == th' = [th EXCEPT ![t] = r]

Shared == <<mutex, sess_list, cancel_idr, idr_next, peer_sess, sess_ev, closed_ret>>

\* A thread enters one of the four entry points.
Enter(t, r) ==
    /\ th[t].pc = "idle"
    /\ calls < MaxCalls
    /\ calls' = calls + 1
    /\ Upd(t, r)
    /\ UNCHANGED Shared

\* mutex_lock at position `at`, entering the critical section `cs`.
Lock(t, at, cs) ==
    /\ th[t].pc = at
    /\ mutex = NoThread
    /\ mutex' = t
    /\ Upd(t, [th[t] EXCEPT !.pc = cs])
    /\ UNCHANGED <<sess_list, cancel_idr, idr_next, peer_sess, sess_ev, closed_ret, calls>>

\* get_msg_arg: tee_shm_alloc fails (nothing allocated), or a later step
\* fails (the buffer is freed again), or the zeroed message is returned.
GetMsgOutcomes == {"alloc_failed", "va_pa_failed", "ok"}

get_msg_arg(r, o, forClose) ==
    LET a  == IF o = "alloc_failed" THEN r ELSE [r EXCEPT !.nAlloc = @ + 1]
        b  == IF o = "va_pa_failed" THEN [a EXCEPT !.nFree = @ + 1] ELSE a
        st == IF o = "ok" THEN "live" ELSE IF o = "va_pa_failed" THEN "freed" ELSE "none"
    IN IF forClose THEN [b EXCEPT !.cshm = st]
       ELSE [b EXCEPT !.shm = st, !.msg_session = 0, !.msg_cancel = 0,
                      !.msg_ret = "TEEC_SUCCESS", !.msg_origin = "NONE"]

tee_shm_free_skip(r, forClose) == r

tee_shm_free(r, forClose) ==
    IF forClose THEN [r EXCEPT !.cshm = "freed", !.nFree = @ + 1]
    ELSE [r EXCEPT !.shm = "freed", !.nFree = @ + 1]

mutex_unlock_skip(t) == t

mutex_unlock(t) == NoThread

\* The message is not read again by the entry point: its fields are dropped
\* from the state (the buffer itself stays allocated until tee_shm_free).
msg_done(r) ==
    [r EXCEPT !.msg_session = 0, !.msg_cancel = 0,
              !.msg_ret = "TEEC_SUCCESS", !.msg_origin = "NONE"]

\* The entry point returns val: its locals and its message are gone; what the
\* caller sees (the status and arg) and the call's counts are kept.
Ret(r, val) ==
    [r EXCEPT !.pc = "ret", !.rc = val, !.idr_id = 0,
              !.shm = "none", !.cshm = "none", !.cs_session = 0,
              !.msg_session = 0, !.msg_cancel = 0,
              !.msg_ret = "TEEC_SUCCESS", !.msg_origin = "NONE"]

\* History records of a lookup, taken from the registry as the lookup meets it.
SessSeen(list, session) ==
    IF \E i \in 1..Len(list) : list[i] = session THEN "present" ELSE "absent"

TokSeen(idr, cancel_id) ==
    IF \E id \in TokenIds : idr[id] # 0 /\ idr[id] = cancel_id THEN "live" ELSE "free"

\* History of a session id, kept for ids of SessIds only.
Ev(s, e) == IF s \in SessIds THEN [sess_ev EXCEPT ![s] = e] ELSE sess_ev

----------------------------------------------------------------------------
\* Cancellation token registry

no_cancel_id_never(cancel_id) == FALSE

\* "if (!cancel_id) goto out"
no_cancel_id(cancel_id) == cancel_id = 0

\* "if (!idr_id) return"
no_idr_id(idr_id) == idr_id = 0

\* mipstee_alloc_cancel_idr up to mutex_lock: cancel_id 0 yields token 0.
alloc_cancel_idr_enter(t, at, cs, nxt) ==
    /\ th[t].pc = at
    /\ IF no_cancel_id(th[t].a_cancel)
       THEN /\ Upd(t, [th[t] EXCEPT !.pc = nxt, !.rc = 0, !.idr_id = 0, !.msg_cancel = 0])
            /\ mutex' = mutex
       ELSE /\ mutex = NoThread
            /\ mutex' = t
            /\ Upd(t, [th[t] EXCEPT !.pc = cs])
    /\ UNCHANGED <<sess_list, cancel_idr, idr_next, peer_sess, sess_ev, closed_ret, calls>>

alloc_cancel_idr_result_unchecked(idr, next, cancel_id, nomem) ==
    IF nomem THEN -ENOMEM ELSE idr_alloc_cyclic(idr, next)

\* The value mipstee_alloc_cancel_idr returns from its critical section.
alloc_cancel_idr_result(idr, next, cancel_id, nomem) ==
    IF idr_for_each(idr, cancel_id) # 0 THEN -EINVAL
    ELSE IF nomem THEN -ENOMEM
    ELSE idr_alloc_cyclic(idr, next)

\* The critical section of mipstee_alloc_cancel_idr and the caller's
\* "if (rc < 0) goto out; idr_id = rc; msg_arg->cancel_id = idr_id".
alloc_cancel_idr_cs(t, cs, nxt, out) ==
    /\ th[t].pc = cs
    /\ mutex = t
    /\ \E nomem \in BOOLEAN :
         LET id == alloc_cancel_idr_result(cancel_idr, idr_next, th[t].a_cancel, nomem)
             seen == TokSeen(cancel_idr, th[t].a_cancel)
         IN IF id < 0
            THEN /\ Upd(t, [th[t] EXCEPT !.pc = out, !.rc = id, !.f_tok = seen])
                 /\ UNCHANGED <<cancel_idr, idr_next>>
            ELSE /\ cancel_idr' = [cancel_idr EXCEPT ![id] = th[t].a_cancel]
                 /\ idr_next' = id + 1
                 /\ Upd(t, [th[t] EXCEPT !.pc = nxt, !.rc = id, !.idr_id = id,
                                         !.msg_cancel = id, !.f_tok = seen])
    /\ mutex' = mutex_unlock(t)
    /\ UNCHANGED <<sess_list, peer_sess, sess_ev, closed_ret, calls>>

idr_remove_skip(idr, id) == idr

idr_remove(idr, id) == [idr EXCEPT ![id] = 0]

\* mipstee_remove_cancel_idr up to mutex_lock: token 0 is a no-op.
remove_cancel_idr_enter(t, at, cs, nxt) ==
    /\ th[t].pc = at
    /\ IF no_idr_id(th[t].idr_id)
       THEN /\ Upd(t, [th[t] EXCEPT !.pc = nxt])
            /\ mutex' = mutex
       ELSE /\ mutex = NoThread
            /\ mutex' = t
            /\ Upd(t, [th[t] EXCEPT !.pc = cs])
    /\ UNCHANGED <<sess_list, cancel_idr, idr_next, peer_sess, sess_ev, closed_ret, calls>>

remove_cancel_idr_cs(t, cs, nxt) ==
    /\ th[t].pc = cs
    /\ mutex = t
    /\ cancel_idr' = idr_remove(cancel_idr, th[t].idr_id)
    /\ mutex' = mutex_unlock(t)
    /\ Upd(t, [th[t] EXCEPT !.pc = nxt])
    /\ UNCHANGED <<sess_list, idr_next, peer_sess, sess_ev, closed_ret, calls>>

----------------------------------------------------------------------------
\* mipstee_close_session, entered from the ioctl layer (op = "close") or
\* from mipstee_open_session (op = "open").

call_close_session(t) ==
    \E s \in SessArgs :
        Enter(t, [IdleThread EXCEPT !.pc = "c_lock", !.op = "close",
                                     !.a_session = s, !.cs_session = s])

\* Return of mipstee_close_session: to the caller of the ioctl, or back into
\* mipstee_open_session, which ignores the value.
close_return(r, val) ==
    IF r.op = "close" THEN Ret(r, val)
    ELSE [r EXCEPT !.pc = "o_out", !.cshm = "none", !.cs_session = 0]

close_lock(t) == Lock(t, "c_lock", "c_cs")

close_lookup_any(list, session) == 0

\* "if (!sess) return -EINVAL": 0 when the close goes on.
close_lookup(list, session) ==
    IF find_session(list, session) # 0 THEN 0 ELSE -EINVAL

close_cs(t) ==
    /\ th[t].pc = "c_cs"
    /\ mutex = t
    /\ LET i == find_session(sess_list, th[t].cs_session)
           st == close_lookup(sess_list, th[t].cs_session)
           r == [th[t] EXCEPT !.f_sess = SessSeen(sess_list, th[t].cs_session)]
       IN IF st = 0
          THEN /\ sess_list' = list_del(sess_list, i)
               /\ sess_ev' = Ev(th[t].cs_session, "removed")
               /\ Upd(t, [r EXCEPT !.pc = "c_getmsg"])
          ELSE /\ UNCHANGED <<sess_list, sess_ev>>
               /\ Upd(t, close_return(r, st))
    /\ mutex' = mutex_unlock(t)
    /\ UNCHANGED <<cancel_idr, idr_next, peer_sess, closed_ret, calls>>

close_get_msg_arg(t) ==
    /\ th[t].pc = "c_getmsg"
    /\ \E o \in GetMsgOutcomes :
         LET r == get_msg_arg(th[t], o, TRUE)
         IN IF o = "ok" THEN Upd(t, [r EXCEPT !.pc = "c_call"])
            ELSE Upd(t, close_return(r, -ENOMEM))
    /\ UNCHANGED <<Shared, calls>>

\* tipc_call entered with the CLOSE_SESSION message.
close_do_call(t) ==
    /\ th[t].pc = "c_call"
    /\ Upd(t, [th[t] EXCEPT !.pc = "c_wait", !.nCall = @ + 1])
    /\ UNCHANGED <<Shared, calls>>

\* tipc_call returns: the peer answered, or the call failed after or before
\* the message reached the peer.  The status is ignored.
close_call_return(t) ==
    /\ th[t].pc = "c_wait"
    /\ \E st \in {"ok", "lost_reply", "not_sent"} :
         /\ peer_sess' = IF st = "not_sent" THEN peer_sess
                         ELSE peer_sess \ {th[t].cs_session}
         /\ Upd(t, [th[t] EXCEPT !.pc = "c_free",
                                 !.trc = IF th[t].op = "close"
                                         THEN (IF st = "ok" THEN 0 ELSE -EIO)
                                         ELSE @])
    /\ UNCHANGED <<mutex, sess_list, cancel_idr, idr_next, sess_ev, closed_ret, calls>>

close_free(t) ==
    /\ th[t].pc = "c_free"
    /\ Upd(t, close_return(tee_shm_free(th[t], TRUE), 0))
    /\ LET s == th[t].cs_session
       IN /\ sess_ev' = IF s \in SessIds /\ sess_ev[s] = "removed"
                        THEN Ev(s, "closed") ELSE sess_ev
          /\ closed_ret' = IF s \in SessIds /\ th[t].op = "close"
                           THEN [closed_ret EXCEPT ![s] = TRUE] ELSE closed_ret
    /\ UNCHANGED <<mutex, sess_list, cancel_idr, idr_next, peer_sess, calls>>

----------------------------------------------------------------------------
\* mipstee_open_session

call_open_session(t) ==
    \E c \in CancelIds :
        Enter(t, [IdleThread EXCEPT !.pc = "o_getmsg", !.op = "open", !.a_cancel = c])

open_get_msg_arg(t) ==
    /\ th[t].pc = "o_getmsg"
    /\ \E o \in GetMsgOutcomes :
         LET r == get_msg_arg(th[t], o, FALSE)
         IN IF o = "ok" THEN Upd(t, [r EXCEPT !.pc = "o_alloc"])
            ELSE Upd(t, Ret(r, -ENOMEM))
    /\ UNCHANGED <<Shared, calls>>

open_alloc_cancel_idr(t) == alloc_cancel_idr_enter(t, "o_alloc", "o_alloc_cs", "o_auth")

open_alloc_cancel_idr_cs(t) == alloc_cancel_idr_cs(t, "o_alloc_cs", "o_auth", "o_out")

mipstee_authenticate_client_any(clnt_login) == 0

\* mipstee_authenticate_client's return value.
mipstee_authenticate_client(clnt_login) ==
    IF clnt_login \in RecognizedLogins THEN 0 ELSE EACCES

open_authenticate(t) ==
    /\ th[t].pc = "o_auth"
    /\ \E login \in LoginArgs :
         LET rc == mipstee_authenticate_client(login)
         IN Upd(t, [th[t] EXCEPT !.rc = rc,
                                 !.f_login = IF login \in RecognizedLogins
                                             THEN "recognized" ELSE "other",
                                 !.pc = IF rc # 0 THEN "o_out" ELSE "o_tomsg"])
    /\ UNCHANGED <<Shared, calls>>

open_to_msg_param(t) ==
    /\ th[t].pc = "o_tomsg"
    /\ \E rc \in MarshalStatus :
         Upd(t, [th[t] EXCEPT !.rc = rc,
                              !.pc = IF rc # 0 THEN "o_out" ELSE "o_kzalloc"])
    /\ UNCHANGED <<Shared, calls>>

open_kzalloc(t) ==
    /\ th[t].pc = "o_kzalloc"
    /\ \E ok \in BOOLEAN :
         Upd(t, IF ok THEN [th[t] EXCEPT !.pc = "o_call"]
                ELSE [th[t] EXCEPT !.pc = "o_out", !.rc = -ENOMEM])
    /\ UNCHANGED <<Shared, calls>>

\* tipc_call entered with the OPEN_SESSION message.
open_do_call(t) ==
    /\ th[t].pc = "o_call"
    /\ Upd(t, [th[t] EXCEPT !.pc = "o_wait", !.nCall = @ + 1])
    /\ UNCHANGED <<Shared, calls>>

force_comms_skip(r, status) == r

\* "if (mipstee_do_call_with_arg(ctx, msg_arg)) { ret = COMMUNICATION; ... }"
force_comms(r, status) ==
    IF status # 0
    THEN [r EXCEPT !.msg_ret = "TEEC_ERROR_COMMUNICATION", !.msg_origin = "TEEC_ORIGIN_COMMS"]
    ELSE r

\* tipc_call returns.  A failed call leaves the message as it was sent; the
\* peer may have opened the session all the same.
open_call_return(t) ==
    /\ th[t].pc = "o_wait"
    /\ \E st \in {"ok", "lost_reply", "not_sent"}, rp \in PeerOpenReplies(peer_sess) :
         /\ peer_sess' = IF st = "not_sent" THEN peer_sess ELSE rp.peer
         /\ LET r == IF st = "ok"
                     THEN [th[t] EXCEPT !.msg_ret = rp.ret,
                                        !.msg_origin = rp.origin,
                                        !.msg_session = rp.session]
                     ELSE th[t]
                status == IF st = "ok" THEN 0 ELSE -EIO
            IN Upd(t, [force_comms(r, status) EXCEPT !.pc = "o_link", !.trc = status])
    /\ UNCHANGED <<mutex, sess_list, cancel_idr, idr_next, sess_ev, closed_ret, calls>>

open_session_created_any(r) == TRUE

\* "if (msg_arg->ret == TEEC_SUCCESS)"
open_session_created(r) == r.msg_ret = "TEEC_SUCCESS"

open_link_lock(t) ==
    /\ open_session_created(th[t])
    /\ Lock(t, "o_link", "o_link_cs")

open_link_cs(t) ==
    /\ th[t].pc = "o_link_cs"
    /\ mutex = t
    /\ sess_list' = list_add(th[t].msg_session, sess_list)
    /\ sess_ev' = Ev(th[t].msg_session, "live")
    /\ mutex' = mutex_unlock(t)
    /\ Upd(t, [th[t] EXCEPT !.pc = "o_frommsg", !.f_ins = th[t].msg_session])
    /\ UNCHANGED <<cancel_idr, idr_next, peer_sess, closed_ret, calls>>

\* kfree(sess) of the unused placeholder.
open_discard_sess(t) ==
    /\ th[t].pc = "o_link"
    /\ ~open_session_created(th[t])
    /\ Upd(t, [th[t] EXCEPT !.pc = "o_frommsg"])
    /\ UNCHANGED <<Shared, calls>>

\* mipstee_from_msg_param and both branches after it; the failing branch
\* enters mipstee_close_session(ctx, msg_arg->session).
open_from_msg_param(t) ==
    /\ th[t].pc = "o_frommsg"
    /\ \E st \in MarshalStatus :
         Upd(t, msg_done(
                IF st # 0
                THEN [th[t] EXCEPT !.a_ret = "TEEC_ERROR_COMMUNICATION",
                                   !.a_origin = "TEEC_ORIGIN_COMMS",
                                   !.cs_session = th[t].msg_session,
                                   !.pc = "c_lock"]
                ELSE [th[t] EXCEPT !.a_session = th[t].msg_session,
                                   !.a_ret = th[t].msg_ret,
                                   !.a_origin = th[t].msg_origin,
                                   !.pc = "o_out"]))
    /\ UNCHANGED <<Shared, calls>>

open_remove_cancel_idr(t) == remove_cancel_idr_enter(t, "o_out", "o_rm_cs", "o_free")

open_remove_cancel_idr_cs(t) == remove_cancel_idr_cs(t, "o_rm_cs", "o_free")

\* tee_shm_free and return rc.
open_free(t) ==
    /\ th[t].pc = "o_free"
    /\ Upd(t, Ret(tee_shm_free(th[t], FALSE), th[t].rc))
    /\ closed_ret' = IF th[t].a_ret = "TEEC_SUCCESS" /\ th[t].a_session \in SessIds
                     THEN [closed_ret EXCEPT ![th[t].a_session] = FALSE]
                     ELSE closed_ret
    /\ UNCHANGED <<mutex, sess_list, cancel_idr, idr_next, peer_sess, sess_ev, calls>>

----------------------------------------------------------------------------
\* mipstee_invoke_func

call_invoke_func(t) ==
    \E s \in SessArgs, c \in CancelIds :
        Enter(t, [IdleThread EXCEPT !.pc = "i_lock", !.op = "invoke",
                                     !.a_session = s, !.a_cancel = c])

invoke_lock(t) == Lock(t, "i_lock", "i_cs")

session_valid_any(list, session) == TRUE

session_valid_nonzero(list, session) == session # 0

\* "if (!sess) return -EINVAL" passes
session_valid(list, session) == find_session(list, session) # 0

invoke_cs(t) ==
    /\ th[t].pc = "i_cs"
    /\ mutex = t
    /\ mutex' = mutex_unlock(t)
    /\ LET r == [th[t] EXCEPT !.f_sess = SessSeen(sess_list, th[t].a_session)]
       IN Upd(t, IF session_valid(sess_list, th[t].a_session)
                 THEN [r EXCEPT !.pc = "i_getmsg"]
                 ELSE Ret(r, -EINVAL))
    /\ UNCHANGED <<sess_list, cancel_idr, idr_next, peer_sess, sess_ev, closed_ret, calls>>

invoke_get_msg_arg(t) ==
    /\ th[t].pc = "i_getmsg"
    /\ \E o \in GetMsgOutcomes :
         LET r == get_msg_arg(th[t], o, FALSE)
         IN IF o = "ok"
            THEN Upd(t, [r EXCEPT !.pc = "i_alloc", !.msg_session = th[t].a_session])
            ELSE Upd(t, Ret(r, -ENOMEM))
    /\ UNCHANGED <<Shared, calls>>

invoke_alloc_cancel_idr(t) == alloc_cancel_idr_enter(t, "i_alloc", "i_alloc_cs", "i_tomsg")

invoke_alloc_cancel_idr_cs(t) == alloc_cancel_idr_cs(t, "i_alloc_cs", "i_tomsg", "i_out")

invoke_to_msg_param(t) ==
    /\ th[t].pc = "i_tomsg"
    /\ \E rc \in MarshalStatus :
         Upd(t, [th[t] EXCEPT !.rc = rc,
                              !.pc = IF rc # 0 THEN "i_out" ELSE "i_call"])
    /\ UNCHANGED <<Shared, calls>>

\* tipc_call entered with the INVOKE_COMMAND message.
invoke_do_call(t) ==
    /\ th[t].pc = "i_call"
    /\ Upd(t, [th[t] EXCEPT !.pc = "i_wait", !.nCall = @ + 1])
    /\ UNCHANGED <<Shared, calls>>

invoke_call_return(t) ==
    /\ th[t].pc = "i_wait"
    /\ \E ok \in BOOLEAN, rp \in PeerInvokeReplies :
         LET r == IF ok
                  THEN [th[t] EXCEPT !.msg_ret = rp.ret, !.msg_origin = rp.origin]
                  ELSE th[t]
             status == IF ok THEN 0 ELSE -EIO
         IN Upd(t, [force_comms(r, status) EXCEPT !.pc = "i_frommsg", !.trc = status])
    /\ UNCHANGED <<Shared, calls>>

\* mipstee_from_msg_param, then arg->ret and arg->ret_origin are set.
invoke_from_msg_param(t) ==
    /\ th[t].pc = "i_frommsg"
    /\ \E st \in MarshalStatus :
         LET r == IF st # 0
                  THEN [th[t] EXCEPT !.msg_ret = "TEEC_ERROR_COMMUNICATION",
                                     !.msg_origin = "TEEC_ORIGIN_COMMS"]
                  ELSE th[t]
         IN Upd(t, msg_done([r EXCEPT !.a_ret = r.msg_ret, !.a_origin = r.msg_origin,
                                      !.pc = "i_out"]))
    /\ UNCHANGED <<Shared, calls>>

invoke_remove_cancel_idr(t) == remove_cancel_idr_enter(t, "i_out", "i_rm_cs", "i_free")

invoke_remove_cancel_idr_cs(t) == remove_cancel_idr_cs(t, "i_rm_cs", "i_free")

invoke_free(t) ==
    /\ th[t].pc = "i_free"
    /\ Upd(t, Ret(tee_shm_free(th[t], FALSE), th[t].rc))
    /\ UNCHANGED <<Shared, calls>>

----------------------------------------------------------------------------
\* mipstee_cancel_req

call_cancel_req(t) ==
    \E s \in SessArgs, c \in CancelIds :
        Enter(t, [IdleThread EXCEPT !.pc = "x_start", !.op = "cancel",
                                     !.a_session = s, !.a_cancel = c])

\* "if (session)" is false: no session check.
cancel_no_session(t) ==
    /\ th[t].pc = "x_start"
    /\ th[t].a_session = 0
    /\ Upd(t, [th[t] EXCEPT !.pc = "x_find"])
    /\ UNCHANGED <<Shared, calls>>

cancel_session_lock(t) ==
    /\ th[t].a_session # 0
    /\ Lock(t, "x_start", "x_sess_cs")

cancel_session_cs(t) ==
    /\ th[t].pc = "x_sess_cs"
    /\ mutex = t
    /\ mutex' = mutex_unlock(t)
    /\ LET r == [th[t] EXCEPT !.f_sess = SessSeen(sess_list, th[t].a_session)]
       IN Upd(t, IF session_valid(sess_list, th[t].a_session)
                 THEN [r EXCEPT !.pc = "x_find"]
                 ELSE Ret(r, -EINVAL))
    /\ UNCHANGED <<sess_list, cancel_idr, idr_next, peer_sess, sess_ev, closed_ret, calls>>

token_found_any(idr_id) == TRUE

\* "if (!idr_id) return -EINVAL" passes
token_found(idr_id) == idr_id # 0

cancel_found_reject(r, idr_id) == Ret([r EXCEPT !.idr_id = idr_id], -EINVAL)

\* What follows mipstee_find_cancel_idr's return of idr_id.
cancel_found(r, idr_id) ==
    IF token_found(idr_id) THEN [r EXCEPT !.idr_id = idr_id, !.pc = "x_getmsg"]
    ELSE Ret([r EXCEPT !.idr_id = idr_id], -EINVAL)

\* mipstee_find_cancel_idr up to mutex_lock: cancel_id 0 yields 0.
cancel_find_idr(t) ==
    /\ th[t].pc = "x_find"
    /\ IF no_cancel_id(th[t].a_cancel)
       THEN /\ Upd(t, cancel_found([th[t] EXCEPT !.f_tok = "free"], 0))
            /\ mutex' = mutex
       ELSE /\ mutex = NoThread
            /\ mutex' = t
            /\ Upd(t, [th[t] EXCEPT !.pc = "x_find_cs"])
    /\ UNCHANGED <<sess_list, cancel_idr, idr_next, peer_sess, sess_ev, closed_ret, calls>>

cancel_find_idr_cs(t) ==
    /\ th[t].pc = "x_find_cs"
    /\ mutex = t
    /\ mutex' = mutex_unlock(t)
    /\ Upd(t, cancel_found([th[t] EXCEPT !.f_tok = TokSeen(cancel_idr, th[t].a_cancel)],
                            idr_for_each(cancel_idr, th[t].a_cancel)))
    /\ UNCHANGED <<sess_list, cancel_idr, idr_next, peer_sess, sess_ev, closed_ret, calls>>

cancel_get_msg_arg(t) ==
    /\ th[t].pc = "x_getmsg"
    /\ \E o \in GetMsgOutcomes :
         LET r == get_msg_arg(th[t], o, FALSE)
         IN IF o = "ok"
            THEN Upd(t, [r EXCEPT !.pc = "x_write", !.msg_session = th[t].a_session,
                                  !.msg_cancel = th[t].idr_id])
            ELSE Upd(t, Ret(r, -ENOMEM))
    /\ UNCHANGED <<Shared, calls>>

\* tipc_write of the CANCEL message; its status is ignored.
cancel_write(t) ==
    /\ th[t].pc = "x_write"
    /\ \E ok \in BOOLEAN :
         Upd(t, [th[t] EXCEPT !.pc = "x_free", !.nWrite = @ + 1,
                              !.trc = IF ok THEN 0 ELSE -EIO])
    /\ UNCHANGED <<Shared, calls>>

cancel_free(t) ==
    /\ th[t].pc = "x_free"
    /\ Upd(t, Ret(tee_shm_free(th[t], FALSE), 0))
    /\ UNCHANGED <<Shared, calls>>

----------------------------------------------------------------------------
\* The entry point has returned to its caller; the thread may call again.
Return(t) ==
    /\ th[t].pc = "ret"
    /\ Upd(t, IdleThread)
    /\ UNCHANGED <<Shared, calls>>

Next ==
    \E t \in Threads :
        \/ call_open_session(t)
        \/ open_get_msg_arg(t)
        \/ open_alloc_cancel_idr(t)
        \/ open_alloc_cancel_idr_cs(t)
        \/ open_authenticate(t)
        \/ open_to_msg_param(t)
        \/ open_kzalloc(t)
        \/ open_do_call(t)
        \/ open_call_return(t)
        \/ open_link_lock(t)
        \/ open_link_cs(t)
        \/ open_discard_sess(t)
        \/ open_from_msg_param(t)
        \/ open_remove_cancel_idr(t)
        \/ open_remove_cancel_idr_cs(t)
        \/ open_free(t)
        \/ call_close_session(t)
        \/ close_lock(t)
        \/ close_cs(t)
        \/ close_get_msg_arg(t)
        \/ close_do_call(t)
        \/ close_call_return(t)
        \/ close_free(t)
        \/ call_invoke_func(t)
        \/ invoke_lock(t)
        \/ invoke_cs(t)
        \/ invoke_get_msg_arg(t)
        \/ invoke_alloc_cancel_idr(t)
        \/ invoke_alloc_cancel_idr_cs(t)
        \/ invoke_to_msg_param(t)
        \/ invoke_do_call(t)
        \/ invoke_call_return(t)
        \/ invoke_from_msg_param(t)
        \/ invoke_remove_cancel_idr(t)
        \/ invoke_remove_cancel_idr_cs(t)
        \/ invoke_free(t)
        \/ call_cancel_req(t)
        \/ cancel_no_session(t)
        \/ cancel_session_lock(t)
        \/ cancel_session_cs(t)
        \/ cancel_find_idr(t)
        \/ cancel_find_idr_cs(t)
        \/ cancel_get_msg_arg(t)
        \/ cancel_write(t)
        \/ cancel_free(t)
        \/ Return(t)

Spec == Init /\ [][Next]_vars

----------------------------------------------------------------------------
\* Properties

\* Positions at which a call of open-session or invoke holds the token idr_id
\* it registered.
TokenHeldAt == {"o_auth", "o_tomsg", "o_kzalloc", "o_call", "o_wait", "o_link",
                "o_link_cs", "o_frommsg", "c_lock", "c_cs", "c_getmsg", "c_call",
                "c_wait", "c_free", "o_out", "o_rm_cs",
                "i_tomsg", "i_call", "i_wait", "i_frommsg", "i_out", "i_rm_cs"}

HoldsToken(t, id) ==
    /\ th[t].op \in {"open", "invoke"}
    /\ th[t].pc \in TokenHeldAt
    /\ th[t].idr_id = id

\* C1 as stated: once a close-session(S) has returned 0 and no open-session
\* has returned S since, S is not in the session registry.
C1_AbsentAfterCloseReturned ==
    \A s \in SessIds : closed_ret[s] => find_session(sess_list, s) = 0

\* C1, amended: once a close-session has removed S and returned, and no
\* open-session has inserted S since, S is not in the session registry and
\* the lookup of a further close-session(S) yields -EINVAL.
C1_AbsentUntilReinserted ==
    \A s \in SessIds :
        sess_ev[s] = "closed" =>
            /\ find_session(sess_list, s) = 0
            /\ close_lookup(sess_list, s) = -EINVAL

\* A second close-session(S) has failed with -EINVAL after the first one
\* removed S.
C1_SecondCloseFailed ==
    \E t \in Threads :
        /\ th[t].op = "close" /\ th[t].pc = "ret"
        /\ th[t].rc = -EINVAL /\ th[t].f_sess = "absent"
        /\ th[t].a_session \in SessIds
        /\ sess_ev[th[t].a_session] = "closed"

\* C2: an invoke whose lookup does not find the session returns -EINVAL at
\* once: it has allocated no buffer, scanned or registered no token and
\* made no transport call.
C2_InvokeUnknownSession ==
    \A t \in Threads :
        th[t].op = "invoke" /\ th[t].f_sess = "absent" =>
            /\ th[t].pc = "ret" /\ th[t].rc = -EINVAL
            /\ th[t].nAlloc = 0 /\ th[t].nCall = 0 /\ th[t].nWrite = 0
            /\ th[t].f_tok = "none" /\ th[t].idr_id = 0
            /\ \A id \in TokenIds : cancel_idr[id] # 0 => \E u \in Threads \ {t} : HoldsToken(u, id)

\* An invoke naming a session id other than 0 and a cancel id other than 0
\* was rejected for the unknown session.
C2_InvokeRejected ==
    \E t \in Threads :
        /\ th[t].op = "invoke" /\ th[t].pc = "ret" /\ th[t].f_sess = "absent"
        /\ th[t].a_session # 0 /\ th[t].a_cancel # 0

\* C3: no two live tokens carry the same cancel id; a cancellable call whose
\* cancel id is carried by a live token fails with -EINVAL, holds no token
\* (so its cleanup removes none) and makes no transport call; a call whose
\* cancel id is carried by no live token gets a token unless the idr
\* allocation itself fails.
C3_CancelIdCollision ==
    /\ \A i, j \in TokenIds :
          cancel_idr[i] # 0 /\ cancel_idr[i] = cancel_idr[j] => i = j
    /\ \A t \in Threads :
          th[t].op \in {"open", "invoke"} =>
            /\ th[t].f_tok = "live" =>
                  /\ th[t].rc = -EINVAL /\ th[t].idr_id = 0 /\ th[t].nCall = 0
                  /\ th[t].pc \in {"o_out", "o_free", "i_out", "i_free", "ret"}
            /\ th[t].f_tok = "free" /\ th[t].pc # "ret" =>
                  th[t].idr_id # 0 \/ th[t].rc \in {-ENOMEM, -ENOSPC}

\* A call was refused its cancel id while another call holds a token with
\* that cancel id.
C3_SecondCallRefused ==
    \E t, u \in Threads :
        /\ t # u
        /\ th[t].f_tok = "live" /\ th[t].pc \in {"o_out", "i_out"}
        /\ th[u].idr_id # 0 /\ HoldsToken(u, th[u].idr_id)
        /\ cancel_idr[th[u].idr_id] = th[t].a_cancel

\* C4: an open-session whose transport call failed never enters the
\* insertion and adds no session; its message, and from the back-marshaling
\* on the caller's arg, carry communication-error with origin comms; the
\* returned session id stays 0; and once the token removal is done the token
\* the call registered is free again or belongs to another call in progress.
C4_OpenTransportFailure ==
    \A t \in Threads :
        th[t].op = "open" /\ th[t].trc # 0 =>
            /\ th[t].pc # "o_link_cs" /\ th[t].f_ins = 0
            /\ th[t].a_session = 0
            /\ th[t].pc \in {"o_link", "o_frommsg"} =>
                  /\ th[t].msg_ret = "TEEC_ERROR_COMMUNICATION"
                  /\ th[t].msg_origin = "TEEC_ORIGIN_COMMS"
            /\ th[t].pc \notin {"o_link", "o_frommsg"} =>
                  /\ th[t].a_ret = "TEEC_ERROR_COMMUNICATION"
                  /\ th[t].a_origin = "TEEC_ORIGIN_COMMS"
            /\ th[t].pc = "o_free" /\ th[t].idr_id # 0 =>
                  \/ cancel_idr[th[t].idr_id] = 0
                  \/ \E u \in Threads \ {t} : HoldsToken(u, th[t].idr_id)
            /\ th[t].pc = "ret" =>
                  \A id \in TokenIds :
                      cancel_idr[id] # 0 => \E u \in Threads \ {t} : HoldsToken(u, id)

\* A cancellable open-session has returned after its transport call failed.
C4_OpenFailedReturned ==
    \E t \in Threads :
        /\ th[t].op = "open" /\ th[t].pc = "ret"
        /\ th[t].trc # 0 /\ th[t].nCall = 1 /\ th[t].a_cancel # 0
        /\ th[t].a_ret = "TEEC_ERROR_COMMUNICATION"

Count(list, session) == Cardinality({i \in 1..Len(list) : list[i] = session})

\* C5 as stated: an invoke that found its session in the registry does not
\* return without having entered a transport call.
C5_InvokeAlwaysReachesTransport ==
    \A t \in Threads :
        th[t].op = "invoke" /\ th[t].f_sess = "present" /\ th[t].pc = "ret" =>
            th[t].nCall = 1

\* C5, amended: the insertion adds the id X of the peer's successful reply,
\* X has exactly one record from then until a close-session removes it, the
\* caller of a successful open-session receives X with status 0, and an
\* invoke that finds its session goes on to its buffer allocation and
\* returns without a transport call only when that allocation, the token
\* registration (cancel id collision or no memory) or the marshaling fails.
C5_OpenInsertsOnce ==
    /\ \A s \in SessIds :
          Count(sess_list, s) = IF sess_ev[s] = "live" THEN 1 ELSE 0
    /\ \A t \in Threads :
          /\ th[t].op = "open" /\ th[t].pc = "o_frommsg"
                /\ th[t].msg_ret = "TEEC_SUCCESS" =>
                /\ th[t].msg_session \in SessIds
                /\ th[t].f_ins = th[t].msg_session
          /\ th[t].op = "open" /\ th[t].a_ret = "TEEC_SUCCESS" =>
                /\ th[t].f_ins \in SessIds
                /\ th[t].a_session = th[t].f_ins
                /\ th[t].rc = 0
          /\ th[t].op = "invoke" /\ th[t].f_sess = "present"
                /\ th[t].pc = "ret" /\ th[t].nCall = 0 =>
                \/ th[t].rc = -ENOMEM
                \/ th[t].rc = -EINVAL /\ th[t].nAlloc = 1 /\ th[t].f_tok = "live"
                \/ th[t].rc = -EINVAL /\ th[t].nAlloc = 1 /\ th[t].f_tok # "live"
                                      /\ th[t].trc = 0

\* An invoke is inside its transport call on a session that an open-session
\* inserted and that has one record.
C5_InvokeInTransport ==
    \E t \in Threads :
        /\ th[t].op = "invoke" /\ th[t].pc = "i_wait" /\ th[t].f_sess = "present"
        /\ th[t].a_session \in SessIds
        /\ sess_ev[th[t].a_session] = "live"
        /\ Count(sess_list, th[t].a_session) = 1

\* C6: a cancel-request whose token lookup meets no live token with its
\* cancel id (cancel id 0 included) returns -EINVAL at once: no buffer, no
\* transport write, no transport call.
C6_CancelWithoutToken ==
    \A t \in Threads :
        th[t].op = "cancel" /\ th[t].f_tok = "free" =>
            /\ th[t].pc = "ret" /\ th[t].rc = -EINVAL
            /\ th[t].nWrite = 0 /\ th[t].nCall = 0 /\ th[t].nAlloc = 0

\* Both cases have happened: a cancel-request with a cancel id other than 0
\* and one with cancel id 0 were rejected by the token lookup.
C6_CancelRejected ==
    /\ \E t \in Threads :
          /\ th[t].op = "cancel" /\ th[t].pc = "ret" /\ th[t].f_tok = "free"
          /\ th[t].a_cancel # 0
    /\ \E t \in Threads :
          /\ th[t].op = "cancel" /\ th[t].pc = "ret" /\ th[t].f_tok = "free"
          /\ th[t].a_cancel = 0

LiveBufs(r) == (IF r.shm = "live" THEN 1 ELSE 0) + (IF r.cshm = "live" THEN 1 ELSE 0)

\* C7 as stated: every returned invocation has made exactly one buffer
\* allocation and exactly one buffer release.
C7_ExactlyOneBuffer ==
    \A t \in Threads :
        th[t].pc = "ret" => th[t].nAlloc = 1 /\ th[t].nFree = 1

\* C7, amended: at every moment the allocations of an invocation exceed its
\* releases by exactly the buffers it holds (none released twice); when it
\* returns every buffer it allocated has been released once; it allocates
\* at most one buffer, or two when open-session runs its compensating
\* close-session, and none when it fails before its allocation or the
\* allocation itself fails.
C7_BuffersBalanced ==
    \A t \in Threads :
        /\ th[t].nAlloc - th[t].nFree = LiveBufs(th[t])
        /\ th[t].pc = "ret" =>
              /\ th[t].nAlloc = th[t].nFree
              /\ th[t].nAlloc <= IF th[t].op = "open" THEN 2 ELSE 1
              /\ th[t].nAlloc = 0 => th[t].rc \in {-EINVAL, -ENOMEM}
              /\ th[t].nAlloc = 2 => th[t].f_sess = "present"

\* An open-session returned after its compensating close-session: two
\* buffers allocated, two released; and an invoke returned with none.
C7_TwoBuffersReturned ==
    /\ \E t \in Threads :
          /\ th[t].op = "open" /\ th[t].pc = "ret"
          /\ th[t].nAlloc = 2 /\ th[t].nFree = 2
    /\ \E t \in Threads :
          /\ th[t].op = "invoke" /\ th[t].pc = "ret"
          /\ th[t].nAlloc = 0 /\ th[t].nFree = 0

\* C8: every live entry of the token registry is the token of exactly one
\* open-session or invoke still in progress, registered under that call's
\* cancel id; a call past its token removal holds none; so the registry is
\* empty whenever no open-session or invoke is in progress.
C8_TokenOwnedByCallInProgress ==
    /\ \A id \in TokenIds :
          cancel_idr[id] # 0 =>
              /\ Cardinality({t \in Threads : HoldsToken(t, id)}) = 1
              /\ \A t \in Threads :
                    HoldsToken(t, id) => th[t].a_cancel = cancel_idr[id]
    /\ (\A t \in Threads : th[t].op \notin {"open", "invoke"} \/ th[t].pc = "ret")
          => \A id \in TokenIds : cancel_idr[id] = 0

\* A call that failed after registering a token has removed it and is about
\* to free its buffer and return its error.
C8_TokenRemovedOnFailure ==
    \E t \in Threads :
        /\ th[t].op \in {"open", "invoke"} /\ th[t].pc \in {"o_free", "i_free"}
        /\ th[t].idr_id # 0 /\ th[t].rc # 0
        /\ cancel_idr[th[t].idr_id] = 0

\* C9: the session registry holds at most one record for each session id.
C9_OneRecordPerSession ==
    \A s \in SessArgs : Count(sess_list, s) <= 1

\* The registry holds a record while another open-session, answered with a
\* failure carrying that very id in its session field, is past the
\* insertion it skipped.
C9_FailedOpenNotInserted ==
    \E t \in Threads :
        /\ th[t].op = "open" /\ th[t].pc = "o_frommsg"
        /\ th[t].msg_ret = "TEEC_ERROR_GENERIC"
        /\ th[t].msg_session \in SessIds
        /\ Count(sess_list, th[t].msg_session) = 1

\* Positions inside a critical section: one registry operation each.
CriticalSections == {"c_cs", "o_alloc_cs", "o_link_cs", "o_rm_cs", "i_cs",
                     "i_alloc_cs", "i_rm_cs", "x_sess_cs", "x_find_cs"}

\* C10: a thread holds the mutex exactly while it is inside one of the
\* critical sections, each a single registry operation; at every other
\* position (buffer allocation and release, marshaling, transport call or
\* write) it does not hold it.
C10_LockOnlyInCriticalSection ==
    \A t \in Threads : (mutex = t) <=> (th[t].pc \in CriticalSections)

\* A thread is inside a critical section while the other is inside its
\* transport call.
C10_LockedDuringOthersCall ==
    \E t, u \in Threads :
        /\ mutex = t /\ th[t].pc \in CriticalSections
        /\ th[u].pc \in {"o_wait", "i_wait", "c_wait"}

\* Positions of mipstee_close_session between its critical section and its
\* return.
MidClose == {"c_getmsg", "c_call", "c_wait", "c_free"}

\* C11 as stated: while a close of S is between its removal and its return,
\* a lookup of S finds it absent.
C11_AbsentWhileClosing ==
    \A t \in Threads :
        th[t].pc \in MidClose => ~session_valid(sess_list, th[t].cs_session)

\* C11, amended: a close is past its critical section, and so builds and
\* hands over its CLOSE_SESSION message, only after its lookup found S and
\* removed the record; from then until it returns a lookup of S finds it
\* absent unless an open-session has inserted a record with id S since.
C11_AbsentWhileClosingUntilReinserted ==
    \A t \in Threads :
        /\ th[t].pc \in MidClose =>
              /\ th[t].f_sess = "present"
              /\ th[t].cs_session \in SessIds
              /\ sess_ev[th[t].cs_session] # "live" =>
                    /\ ~session_valid(sess_list, th[t].cs_session)
                    /\ find_session(sess_list, th[t].cs_session) = 0
        /\ th[t].op = "close" /\ th[t].nCall >= 1 => th[t].f_sess = "present"

\* A close is inside its transport call, its session removed and not
\* inserted again, while an invoke on that session is about to do its
\* lookup.
C11_InvokeLookupDuringClose ==
    \E t, u \in Threads :
        /\ th[t].pc = "c_wait" /\ th[t].op = "close"
        /\ sess_ev[th[t].cs_session] = "removed"
        /\ th[u].op = "invoke" /\ th[u].pc = "i_cs"
        /\ th[u].a_session = th[t].cs_session

\* C12 as stated: a close-session that found and removed the record returns
\* 0, and it returns -EINVAL only when its lookup found no record.
C12_CloseSucceedsOnceRemoved ==
    \A t \in Threads :
        th[t].op = "close" /\ th[t].pc = "ret" =>
            /\ th[t].f_sess = "present" => th[t].rc = 0
            /\ th[t].rc = -EINVAL => th[t].f_sess = "absent"

\* C13: every registry entry has a token id in 1 .. IdrEnd-1 and a cancel id
\* other than 0, and no two entries share a cancel id; a call with cancel id
\* 0 gets token 0 and status 0 from the allocation without entering the
\* registry's critical section, and a call with token 0 passes the release
\* without entering it: neither touches the registry.
C13_ZeroReserved ==
    /\ \A id \in DOMAIN cancel_idr :
          /\ 1 <= id /\ id < IdrEnd
          /\ cancel_idr[id] \in CancelIds
          /\ \A o \in DOMAIN cancel_idr :
                cancel_idr[id] # 0 /\ cancel_idr[id] = cancel_idr[o] => id = o
    /\ \A t \in Threads :
          th[t].op \in {"open", "invoke"} =>
            /\ th[t].idr_id = 0 \/ (1 <= th[t].idr_id /\ th[t].idr_id < IdrEnd)
            /\ th[t].a_cancel = 0 =>
                  /\ th[t].idr_id = 0 /\ th[t].msg_cancel = 0
                  /\ th[t].f_tok = "none"
                  /\ th[t].pc \notin {"o_alloc_cs", "i_alloc_cs"}
                  /\ th[t].pc \in {"o_auth", "i_tomsg"} => th[t].rc = 0
                  /\ \A id \in TokenIds : ~HoldsToken(t, id)
            /\ th[t].idr_id = 0 => th[t].pc \notin {"o_rm_cs", "i_rm_cs"}
            /\ th[t].pc \in {"o_rm_cs", "i_rm_cs"} => cancel_idr[th[t].idr_id] # 0

\* A call with cancel id 0 went through allocation, transport call and
\* release with token 0 while the registry holds another call's token.
C13_ZeroPassedThrough ==
    \E t, u \in Threads :
        /\ th[t].op \in {"open", "invoke"} /\ th[t].pc \in {"o_free", "i_free"}
        /\ th[t].a_cancel = 0 /\ th[t].idr_id = 0 /\ th[t].nCall = 1
        /\ th[u].idr_id # 0 /\ HoldsToken(u, th[u].idr_id)
        /\ cancel_idr[th[u].idr_id] = th[u].a_cancel

\* C14 as stated: a cancel-request that returns 0 has made exactly one
\* transport write, no transport call, and the transport accepted the write.
C14_CancelSuccessMeansWritten ==
    \A t \in Threads :
        th[t].op = "cancel" /\ th[t].pc = "ret" /\ th[t].rc = 0 =>
            /\ th[t].nWrite = 1 /\ th[t].nCall = 0
            /\ th[t].trc = 0

\* C15 as stated: an open-session that inserted X (the peer answered with
\* success) and whose back-marshaling failed has, when it returns, run the
\* close's lookup of X, handed a CLOSE_SESSION message to the transport after
\* its OPEN_SESSION message, and reports communication-error with origin
\* comms and no session id.
C15_BackMarshalFailureClosesSession ==
    \A t \in Threads :
        th[t].op = "open" /\ th[t].pc = "ret"
            /\ th[t].f_ins # 0 /\ th[t].a_ret # "TEEC_SUCCESS" =>
            /\ th[t].f_sess # "none"
            /\ th[t].nCall = 2
            /\ th[t].a_ret = "TEEC_ERROR_COMMUNICATION"
            /\ th[t].a_origin = "TEEC_ORIGIN_COMMS"
            /\ th[t].a_session = 0

\* C16: an open-session whose clnt_login is none of the six recognized
\* classes gets status EACCES from the authentication and goes straight to
\* its cleanup: no transport call, no session inserted, arg->ret untouched;
\* past the token removal its token is no longer its own entry, and when it
\* returns EACCES its one buffer has been freed.
C16_UnrecognizedLoginDenied ==
    \A t \in Threads :
        th[t].op = "open" /\ th[t].f_login = "other" =>
            /\ th[t].rc = EACCES
            /\ th[t].pc \in {"o_out", "o_rm_cs", "o_free", "ret"}
            /\ th[t].nCall = 0 /\ th[t].f_ins = 0 /\ th[t].f_sess = "none"
            /\ th[t].a_ret = "UNSET" /\ th[t].a_session = 0
            /\ th[t].pc = "o_free" /\ th[t].idr_id # 0 =>
                  \/ cancel_idr[th[t].idr_id] = 0
                  \/ \E u \in Threads \ {t} : HoldsToken(u, th[t].idr_id)
            /\ th[t].pc = "ret" =>
                  /\ th[t].nAlloc = 1 /\ th[t].nFree = 1
                  /\ \A id \in TokenIds :
                        cancel_idr[id] # 0 => \E u \in Threads \ {t} : HoldsToken(u, id)

\* A cancellable open-session with an unrecognized login has returned while
\* the registry is empty.
C16_DeniedOpenReturned ==
    \E t \in Threads :
        /\ th[t].op = "open" /\ th[t].pc = "ret" /\ th[t].f_login = "other"
        /\ th[t].a_cancel # 0 /\ th[t].rc = EACCES /\ th[t].f_tok = "free"
        /\ \A id \in TokenIds : cancel_idr[id] = 0

\* C17 as stated: an open-session whose message result was not success, and
\* which therefore inserted no record, removes no record from the session
\* registry either.
C17_FailedOpenLeavesRegistry ==
    \A t \in Threads :
        th[t].op = "open" /\ th[t].nCall >= 1 /\ th[t].f_ins = 0 =>
            th[t].f_sess # "present"

\* C18 as stated, its last part: a cancel-request whose lookup met a live
\* token with its cancel id has made its transport write when it returns.
C18_CancelAlwaysWrites ==
    \A t \in Threads :
        th[t].op = "cancel" /\ th[t].f_tok = "live" /\ th[t].pc = "ret" =>
            th[t].nWrite = 1

\* C18, amended: while an open-session or invoke with a cancel id other than 0 is
\* inside its transport call, its token is registered under that cancel id,
\* the message carries that token id and the thread does not hold the
\* mutex; a cancel-request whose lookup meets a live token with its cancel
\* id goes on, without the mutex, to build the CANCEL message with that
\* token id and returns only after its transport write unless its buffer
\* allocation fails.
C18_TokenLiveDuringCall ==
    /\ \A t \in Threads :
          th[t].pc \in {"o_wait", "i_wait"} /\ th[t].a_cancel # 0 =>
            /\ th[t].idr_id \in TokenIds
            /\ cancel_idr[th[t].idr_id] = th[t].a_cancel
            /\ th[t].msg_cancel = th[t].idr_id
            /\ mutex # t
    /\ \A t \in Threads :
          th[t].op = "cancel" /\ th[t].f_tok = "live" =>
            /\ th[t].pc \in {"x_getmsg", "x_write", "x_free", "ret"}
            /\ mutex # t
            /\ th[t].pc # "ret" => th[t].idr_id \in TokenIds
            /\ th[t].pc \in {"x_write", "x_free"} => th[t].msg_cancel = th[t].idr_id
            /\ th[t].pc = "ret" =>
                  \/ th[t].nWrite = 1 /\ th[t].rc = 0
                  \/ th[t].nWrite = 0 /\ th[t].rc = -ENOMEM

\* A cancel-request has written the CANCEL message carrying the token of a
\* call that is still blocked inside its transport call.
C18_CancelWrittenDuringCall ==
    \E t, u \in Threads :
        /\ th[t].pc \in {"o_wait", "i_wait"} /\ th[t].a_cancel # 0
        /\ th[u].op = "cancel" /\ th[u].pc = "x_free" /\ th[u].nWrite = 1
        /\ th[u].a_cancel = th[t].a_cancel
        /\ th[u].msg_cancel = th[t].idr_id

\* Positions of mipstee_invoke_func after its session check.
PastInvokeLookup == {"i_getmsg", "i_alloc", "i_alloc_cs", "i_tomsg", "i_call",
                     "i_wait", "i_frommsg", "i_out", "i_rm_cs", "i_free"}

\* C19 as stated: whenever an invoke hands its INVOKE_COMMAND message to the
\* transport, the session it names is in the session registry.
C19_InvokeSentOnlyWhilePresent ==
    [][\A t \in Threads :
         th[t].pc = "i_call" /\ th'[t].pc = "i_wait" =>
            session_valid(sess_list, th[t].a_session)]_vars

\* C19, amended: an invoke is past its session check, and so hands over its
\* INVOKE_COMMAND message, only when its lookup found the session's record;
\* the message names that session; when the record is no longer there the
\* reason is that a close-session removed it after the lookup.
C19_InvokeSentOnlyIfFoundAtLookup ==
    \A t \in Threads :
        th[t].op = "invoke" =>
            /\ th[t].pc \in PastInvokeLookup \/ th[t].nCall >= 1 =>
                  /\ th[t].f_sess = "present"
                  /\ th[t].a_session \in SessIds
            /\ th[t].pc \in {"i_call", "i_wait"} =>
                  /\ th[t].msg_session = th[t].a_session
                  /\ ~session_valid(sess_list, th[t].a_session) =>
                        sess_ev[th[t].a_session] \in {"removed", "closed"}

\* An invoke is inside its transport call on a session whose record a
\* close-session has removed since the invoke's lookup.
C19_InvokeSentAfterRemoval ==
    \E t \in Threads :
        /\ th[t].op = "invoke" /\ th[t].pc = "i_wait" /\ th[t].f_sess = "present"
        /\ find_session(sess_list, th[t].a_session) = 0
        /\ sess_ev[th[t].a_session] \in {"removed", "closed"}

\* C20 as stated: whenever a cancel-request hands its CANCEL message to the
\* transport, the token id it carries is live and is held by a call in
\* progress on the session the message names: an open-session when that
\* session is 0, else an invoke on that session.
C20_CancelForwardsLiveToken ==
    [][\A t \in Threads :
         th[t].pc = "x_write" /\ th'[t].pc = "x_free" =>
            /\ cancel_idr[th[t].msg_cancel] # 0
            /\ \E u \in Threads :
                  /\ HoldsToken(u, th[t].msg_cancel)
                  /\ IF th[t].msg_session = 0 THEN th[u].op = "open"
                     ELSE th[u].op = "invoke" /\ th[u].a_session = th[t].msg_session]_vars

\* C20, amended: a cancel-request builds and hands over its CANCEL message
\* only when its lookup met a live token registered under its cancel id; the
\* message carries the token id that lookup returned and the session the
\* caller named, which, when it is not 0, was in the session registry at the
\* request's session check.
C20_CancelForwardsTokenFoundAtLookup ==
    \A t \in Threads :
        th[t].op = "cancel" =>
            /\ th[t].pc \in {"x_getmsg", "x_write", "x_free"} \/ th[t].nWrite >= 1 =>
                  /\ th[t].f_tok = "live"
                  /\ th[t].a_cancel # 0
                  /\ th[t].a_session # 0 => th[t].f_sess = "present"
            /\ th[t].pc \in {"x_getmsg", "x_write", "x_free"} =>
                  th[t].idr_id \in TokenIds
            /\ th[t].pc \in {"x_write", "x_free"} =>
                  /\ th[t].msg_cancel = th[t].idr_id
                  /\ th[t].msg_session = th[t].a_session

\* A cancel-request has written a CANCEL message whose token the call that
\* registered it has already removed.
C20_StaleTokenForwarded ==
    \E t \in Threads :
        /\ th[t].op = "cancel" /\ th[t].pc = "x_free" /\ th[t].nWrite = 1
        /\ th[t].f_tok = "live"
        /\ cancel_idr[th[t].msg_cancel] = 0

====
